---- MODULE Spec2Model ----
(***************************************************************************)
(* LightningCluster: the spatial analysis engine (backend/app.py and       *)
(* backend/blitzortung_api.py), the capture log reader (app.py) and the    *)
(* collector that writes the log (backend/blitzortung_parser.py).          *)
(*                                                                         *)
(* Python lists are modelled 0-based, as functions over 0..n-1, so that    *)
(* the indices of the model are the indices of the source.                 *)
(***************************************************************************)
EXTENDS Integers, Sequences, FiniteSets, TLC

VARIABLES
    pc,             \* position of the call being modelled
    impl,           \* "app" (app.py) or "api" (blitzortung_api.py)
    strikes,        \* the point set: index -> latitude, in grid steps
    max_edge_km,    \* prim_mst_clusters: max_edge_km
    visited,        \* prim_mst_clusters: visited
    mst_edges,      \* prim_mst_clusters: mst_edges, tuples <<w, u, v>>
    clusters,       \* prim_mst_clusters: its return value
    max_distance_km,\* bfs_connected_components: max_distance_km
    components,     \* bfs_connected_components: its return value
    k,              \* greedy_hotspot_selection: k
    hotspots,       \* greedy_hotspot_selection: its return value
    file,           \* the capture log: whether it exists, and its content
    limit,          \* read_strikes_from_collector: limit
    result,         \* read_strikes_from_collector: how the call ended
    message,        \* save_message: the frame of the last call
    message_str,    \* save_message: message_str where the last call left it
    message_count,  \* BlitzortungRawCollector.message_count
    decode_stats,   \* BlitzortungRawCollector.decode_stats
    encoded,        \* blitzortung_lzw_decode: encoded
    lzw,            \* blitzortung_lzw_decode: chars still to come, prev, head,
                    \* dictionary, out
    raw_data,       \* clean_lightning_data: data
    cleaned_data    \* clean_lightning_data: the values returned so far

mstVars == <<max_edge_km, visited, mst_edges, clusters>>

bfsVars == <<max_distance_km, components>>

greedyVars == <<k, hotspots>>

collectorVars == <<message, message_str, message_count, decode_stats>>

logVars == <<file, limit, result, collectorVars>>

decoderVars == <<encoded, lzw, raw_data, cleaned_data>>

vars == <<pc, impl, strikes, mstVars, bfsVars, greedyVars, logVars, decoderVars>>

\* the variables of the calls a specification does not make keep these values
IdleMst == max_edge_km = 0 /\ visited = {} /\ mst_edges = <<>> /\ clusters = <<>>

IdleBfs == max_distance_km = 0 /\ components = <<>>

IdleGreedy == k = 0 /\ hotspots = <<>>

IdleCollector ==
    /\ message = [jt |-> "absent", jv |-> 0]
    /\ message_str = [jt |-> "absent", jv |-> 0]
    /\ message_count = 0
    /\ decode_stats = [total |-> 0, decoded_success |-> 0, decode_failed |-> 0]

IdleLog ==
    /\ file = [exists |-> FALSE, content |-> <<>>]
    /\ limit = 0
    /\ result = [raised |-> FALSE, parsed |-> FALSE, strikes |-> <<>>]
    /\ IdleCollector

IdleDecoders ==
    /\ encoded = <<>>
    /\ lzw = [chars |-> <<>>, prev |-> <<>>, head |-> <<>>, dictionary |-> <<>>,
              out |-> <<>>]
    /\ raw_data = [jt |-> "null", jv |-> 0]
    /\ cleaned_data = <<>>

notMst == <<bfsVars, greedyVars, logVars, decoderVars>>

notBfs == <<mstVars, greedyVars, logVars, decoderVars>>

notGreedy == <<mstVars, bfsVars, logVars, decoderVars>>

notLog == <<impl, strikes, mstVars, bfsVars, greedyVars, decoderVars>>

notDecoders == <<impl, strikes, mstVars, bfsVars, greedyVars, logVars>>

IdleAlgorithms == impl = "app" /\ strikes = <<>> /\ IdleMst /\ IdleBfs /\ IdleGreedy

(***************************************************************************)
(* Bounds.                                                                 *)
(***************************************************************************)
\* most points in a point set
MaxPts == 4
\* the points lie on one meridian, at grid steps 0..MaxPos
MaxPos == 4
\* thresholds are drawn up to this many grid steps
MaxThr == 1
\* most entries of a capture log that is read
MaxLogEntries == 2
\* limit is drawn from 0..MaxLimit and the default
MaxLimit == 1
\* kilometres between two neighbouring grid steps
UnitKm == 25
\* k is drawn from -NegK..MaxK
MaxK == 3
NegK == 1

(***************************************************************************)
(* Python lists as 0-based functions.                                      *)
(***************************************************************************)
Len0(l) == Cardinality(DOMAIN l)

Empty0 == [i \in {} |-> 0]

Append0(l, x) == [i \in 0..Len0(l) |-> IF i < Len0(l) THEN l[i] ELSE x]

Range0(l) == {l[i] : i \in DOMAIN l}

\* the tuples of a Sequence (1-based) as a set
RangeSeq(s) == {s[i] : i \in 1..Len(s)}

Abs(x) == IF x < 0 THEN -x ELSE x

Min(S) == CHOOSE x \in S : \A y \in S : x <= y

Max(S) == CHOOSE x \in S : \A y \in S : x >= y

\* iteration over a set of small ints: ascending, as CPython yields them
RECURSIVE AscSeq(_)
AscSeq(S) == IF S = {} THEN <<>> ELSE <<Min(S)>> \o AscSeq(S \ {Min(S)})

(***************************************************************************)
(* haversine_distance. For two points of one meridian dlon = 0, so         *)
(* a = sin^2(dlat/2) and the result is R * |dlat|: proportional to the     *)
(* difference of the latitudes, symmetric, and 0 for coinciding points.    *)
(***************************************************************************)
haversine_distance(lat1, lat2) == UnitKm * Abs(lat2 - lat1)

PointSets == UNION {[0..(n - 1) -> 0..MaxPos] : n \in 0..MaxPts}

\* the values of max_edge_km and max_distance_km tried: some that are the
\* distance of two points, and some that lie between two such distances
Thresholds == {UnitKm * i + h : i \in 0..MaxThr, h \in {0, 1}}

\* dist_matrix[i][j]
dist_matrix(pts, i, j) == IF i = j THEN 0 ELSE haversine_distance(pts[i], pts[j])

(***************************************************************************)
(* prim_mst_clusters: Prim's loop.                                         *)
(***************************************************************************)
NoEdge == <<-1, -1, -1>>

\* the edges the scan of one iteration of the while loop looks at:
\* u visited, v not visited, dist_matrix[u][v] > 0
CrossingEdges(pts, vis) ==
    UNION {{<<dist_matrix(pts, u, v), u, v>> :
                v \in {w \in DOMAIN pts : w \notin vis /\ dist_matrix(pts, u, w) > 0}} :
            u \in vis}

EdgeBefore(e, f) ==
    \/ e[1] < f[1]
    \/ e[1] = f[1] /\ e[2] < f[2]
    \/ e[1] = f[1] /\ e[2] = f[2] /\ e[3] <= f[3]

\* min_edge after the two nested for loops: the comparison is strict, so the
\* first edge of least weight in scan order (u ascending, then v ascending)
\* is kept; (inf, -1, -1) is kept when no edge passed the test
MinEdge(pts, vis) ==
    LET C == CrossingEdges(pts, vis)
    IN  IF C = {} THEN NoEdge
        ELSE CHOOSE e \in C : \A f \in C : EdgeBefore(e, f)

(***************************************************************************)
(* prim_mst_clusters: pruning and connected components.                    *)
(***************************************************************************)
\* the pruning left out: every edge of Prim survives
ShortEdgesUnpruned(edges, maxKm) == edges

\* short_edges = [e for e in mst_edges if e[0] <= max_edge_km]
ShortEdges(edges, maxKm) == SelectSeq(edges, LAMBDA e : e[1] <= maxKm)

\* adj[i] of app.py
Adj(short, i) ==
    {e[3] : e \in {f \in RangeSeq(short) : f[2] = i}}
        \cup {e[2] : e \in {f \in RangeSeq(short) : f[3] = i}}

\* app.py: for nb in adj[node]: if nb not in seen: seen.add(nb); stack.append(nb)
RECURSIVE PushNeighbours(_, _, _)
PushNeighbours(nbs, stack, seen) ==
    IF nbs = <<>> THEN [stack |-> stack, seen |-> seen]
    ELSE IF Head(nbs) \in seen THEN PushNeighbours(Tail(nbs), stack, seen)
    ELSE PushNeighbours(Tail(nbs), Append(stack, Head(nbs)), seen \cup {Head(nbs)})

\* blitzortung_api.py: the neighbours of node, in the order of short_edges
RECURSIVE EdgeNeighbours(_, _)
EdgeNeighbours(short, node) ==
    IF short = <<>> THEN <<>>
    ELSE LET e == Head(short)
         IN  (IF e[2] = node THEN <<e[3]>>
              ELSE IF e[3] = node THEN <<e[2]>> ELSE <<>>)
                 \o EdgeNeighbours(Tail(short), node)

\* list.sort() of tuples (w, u, v): insertion into a sorted sequence
RECURSIVE InsertEdge(_, _)
InsertEdge(sorted, e) ==
    IF sorted = <<>> THEN <<e>>
    ELSE IF EdgeBefore(Head(sorted), e) THEN <<Head(sorted)>> \o InsertEdge(Tail(sorted), e)
    ELSE <<e>> \o sorted

RECURSIVE SortEdges(_)
SortEdges(edges) ==
    IF edges = <<>> THEN <<>>
    ELSE InsertEdge(SortEdges(SubSeq(edges, 1, Len(edges) - 1)), edges[Len(edges)])

NeighbourOrder(which, short, node) ==
    IF which = "app" THEN AscSeq(Adj(short, node)) ELSE EdgeNeighbours(short, node)

\* while stack: node = stack.pop(); comp.append(strikes[node]); push neighbours
RECURSIVE DfsLoop(_, _, _, _, _)
DfsLoop(which, short, stack, comp, seen) ==
    IF stack = <<>> THEN [comp |-> comp, seen |-> seen]
    ELSE LET node == stack[Len(stack)]
             rest == SubSeq(stack, 1, Len(stack) - 1)
             p == PushNeighbours(NeighbourOrder(which, short, node), rest, seen)
         IN  DfsLoop(which, short, p.stack, Append(comp, node), p.seen)

\* sum(s['lat'] for s in comp)
RECURSIVE SumLat(_, _)
SumLat(pts, comp) == IF comp = <<>> THEN 0 ELSE pts[Head(comp)] + SumLat(pts, Tail(comp))

\* the cluster record: strikes holds the indices of the member points, center
\* the mean latitude as the fraction <<sum, count>>
Cluster(pts, comp) ==
    [center |-> <<SumLat(pts, comp), Len(comp)>>,
     count |-> Len(comp),
     strikes |-> comp]

\* for i in range(n): ... if len(comp) > 1: clusters.append(...)
RECURSIVE ComponentsFrom(_, _, _, _, _, _)
ComponentsFrom(which, pts, short, i, seen, acc) ==
    IF i >= Len0(pts) THEN acc
    ELSE IF i \in seen THEN ComponentsFrom(which, pts, short, i + 1, seen, acc)
    ELSE LET r == DfsLoop(which, short, <<i>>, <<>>, seen \cup {i})
         IN  ComponentsFrom(which, pts, short, i + 1, r.seen,
                 IF Len(r.comp) > 1 THEN Append(acc, Cluster(pts, r.comp)) ELSE acc)

\* app.py lines 112-138; blitzortung_api.py _form_clusters_from_mst
FormClusters(which, pts, edges, maxKm) ==
    LET es == IF which = "api" THEN SortEdges(edges) ELSE edges
    IN  ComponentsFrom(which, pts, ShortEdges(es, maxKm), 0, {}, <<>>)

(***************************************************************************)
(* prim_mst_clusters as a state machine: the loop test and the loop body   *)
(* of Prim's while loop are steps of their own.                            *)
(***************************************************************************)
InitPrim(which) ==
    /\ pc = "call"
    /\ impl = which
    /\ strikes \in PointSets
    /\ max_edge_km \in Thresholds
    /\ visited = {}
    /\ mst_edges = <<>>
    /\ clusters = <<>>
    /\ IdleBfs
    /\ IdleGreedy
    /\ IdleLog
    /\ IdleDecoders

\* if len(strikes) <= 1: return []
PrimTrivial ==
    /\ pc = "call"
    /\ Len0(strikes) <= 1
    /\ clusters' = <<>>
    /\ pc' = "done"
    /\ UNCHANGED <<notMst, impl, strikes, max_edge_km, visited, mst_edges>>

\* visited = set([0]); mst_edges = []
PrimStart ==
    /\ pc = "call"
    /\ Len0(strikes) > 1
    /\ visited' = {0}
    /\ mst_edges' = <<>>
    /\ pc' = "prim"
    /\ UNCHANGED <<notMst, impl, strikes, max_edge_km, clusters>>

\* while len(visited) < n: the test holds and the body is entered
PrimEnterLoop ==
    /\ pc = "prim"
    /\ Cardinality(visited) < Len0(strikes)
    /\ pc' = "scan"
    /\ UNCHANGED <<notMst, impl, strikes, max_edge_km, visited, mst_edges, clusters>>

\* the loop test fails: len(visited) = n
PrimSpanned ==
    /\ pc = "prim"
    /\ Cardinality(visited) >= Len0(strikes)
    /\ pc' = "prune"
    /\ UNCHANGED <<notMst, impl, strikes, max_edge_km, visited, mst_edges, clusters>>

\* the body found an edge: mst_edges.append(min_edge); visited.add(min_edge[2])
PrimAddEdge ==
    /\ pc = "scan"
    /\ MinEdge(strikes, visited)[2] # -1
    /\ mst_edges' = Append(mst_edges, MinEdge(strikes, visited))
    /\ visited' = visited \cup {MinEdge(strikes, visited)[3]}
    /\ pc' = "prim"
    /\ UNCHANGED <<notMst, impl, strikes, max_edge_km, clusters>>

\* the body found no edge: app.py breaks out of the loop, blitzortung_api.py
\* has no else branch and goes back to the loop test
PrimNoEdge ==
    /\ pc = "scan"
    /\ MinEdge(strikes, visited)[2] = -1
    /\ pc' = IF impl = "app" THEN "prune" ELSE "prim"
    /\ UNCHANGED <<notMst, impl, strikes, max_edge_km, visited, mst_edges, clusters>>

\* the rest of the function, to its return
PrimClusters ==
    /\ pc = "prune"
    /\ clusters' = FormClusters(impl, strikes, mst_edges, max_edge_km)
    /\ pc' = "done"
    /\ UNCHANGED <<notMst, impl, strikes, max_edge_km, visited, mst_edges>>

NextMst ==
    \/ PrimTrivial
    \/ PrimStart
    \/ PrimEnterLoop
    \/ PrimSpanned
    \/ PrimAddEdge
    \/ PrimNoEdge
    \/ PrimClusters

InitMst == InitPrim("app")

InitMstApi == InitPrim("api")

\* app.py's prim_mst_clusters; the call runs on: no step of it is suspended
\* forever
SpecMst == InitMst /\ [][NextMst]_vars /\ WF_vars(NextMst)

\* blitzortung_api.py's prim_mst_clusters
SpecMstApi == InitMstApi /\ [][NextMst]_vars /\ WF_vars(NextMst)

(***************************************************************************)
(* Claims about prim_mst_clusters.                                         *)
(***************************************************************************)
\* the points a set of undirected edges links to i, i included
RECURSIVE ReachVia(_, _)
ReachVia(E, S) ==
    LET T == S \cup {e[2] : e \in {f \in E : f[1] \in S}}
               \cup {e[1] : e \in {f \in E : f[2] \in S}}
    IN  IF T = S THEN S ELSE ReachVia(E, T)

Members(c) == RangeSeq(c.strikes)

\* the edges Prim selected that survive the pruning, as pairs
SurvivingEdges == {<<e[2], e[3]>> : e \in {f \in RangeSeq(mst_edges) : f[1] <= max_edge_km}}

\* C1: prim_mst_clusters terminates for every finite point set, in app.py and
\* in blitzortung_api.py: the call reaches its return
C1_PrimTerminates == <>(pc = "done")

\* two points are of one group: their distance is below max_edge_km
SameGroup(i, j) == dist_matrix(strikes, i, j) < max_edge_km

GroupOf(i) == {j \in DOMAIN strikes : SameGroup(i, j)}

\* the precondition of C2: the points split into groups of two or more, within
\* a group every distance is below max_edge_km, between groups above it
Grouped ==
    /\ \A i, j \in DOMAIN strikes : dist_matrix(strikes, i, j) # max_edge_km
    /\ \A i \in DOMAIN strikes : Cardinality(GroupOf(i)) >= 2
    /\ \A i \in DOMAIN strikes : \A j \in GroupOf(i) : GroupOf(j) = GroupOf(i)

\* C2: when the points split into groups (distances below max_edge_km inside a
\* group, zero included, above it between groups), app.py's prim_mst_clusters
\* returns exactly one cluster per group, holding the group's points
C2_OneClusterPerGroup ==
    (pc = "done" /\ impl = "app" /\ Grouped) =>
        /\ {Members(clusters[c]) : c \in 1..Len(clusters)} = {GroupOf(i) : i \in DOMAIN strikes}
        /\ Len(clusters) = Cardinality({GroupOf(i) : i \in DOMAIN strikes})

\* C2 restricted to point sets without coinciding points of different index
C2_HoldsWithoutZeroDistances ==
    (pc = "done" /\ impl = "app" /\ Grouped
        /\ \A i, j \in DOMAIN strikes : i # j => dist_matrix(strikes, i, j) > 0) =>
        /\ {Members(clusters[c]) : c \in 1..Len(clusters)} = {GroupOf(i) : i \in DOMAIN strikes}
        /\ Len(clusters) = Cardinality({GroupOf(i) : i \in DOMAIN strikes})

\* C3: every returned cluster is connected by surviving edges of Prim (weight
\* <= max_edge_km), no surviving edge leaves a cluster, a point is in at most
\* one cluster and only once, and every cluster has two members or more
C3_ClustersAreComponents ==
    pc = "done" =>
        /\ \A c \in 1..Len(clusters) :
            /\ Len(clusters[c].strikes) >= 2
            /\ clusters[c].count = Len(clusters[c].strikes)
            /\ Cardinality(Members(clusters[c])) = Len(clusters[c].strikes)
            /\ Members(clusters[c]) \subseteq DOMAIN strikes
            /\ \A i \in Members(clusters[c]) :
                   ReachVia(SurvivingEdges, {i}) = Members(clusters[c])
        /\ \A c, d \in 1..Len(clusters) :
               c # d => Members(clusters[c]) \cap Members(clusters[d]) = {}
        /\ \A e \in SurvivingEdges : \A c \in 1..Len(clusters) :
               e[1] \in Members(clusters[c]) <=> e[2] \in Members(clusters[c])

\* C3's case: app.py returned two clusters after pruning an edge Prim selected
C3_Witness ==
    /\ pc = "done"
    /\ impl = "app"
    /\ Len(clusters) >= 2
    /\ \E e \in RangeSeq(mst_edges) : e[1] > max_edge_km

(***************************************************************************)
(* bfs_connected_components (app.py). A component holds the indices of     *)
(* its points, in the order the code appends strikes[current_idx].         *)
(***************************************************************************)
\* the strict comparison in place of <=
WithinStrict(pts, i, j, km) == haversine_distance(pts[i], pts[j]) < km

\* dist <= max_distance_km
Within(pts, i, j, km) == haversine_distance(pts[i], pts[j]) <= km

\* for j in range(len(strikes)): if j not in visited: if dist <= max: add, append
RECURSIVE BfsScan(_, _, _, _, _, _)
BfsScan(pts, km, current, j, queue, vis) ==
    IF j >= Len0(pts) THEN [queue |-> queue, visited |-> vis]
    ELSE IF j \notin vis /\ Within(pts, current, j, km)
         THEN BfsScan(pts, km, current, j + 1, Append(queue, j), vis \cup {j})
         ELSE BfsScan(pts, km, current, j + 1, queue, vis)

\* while queue: current_idx = queue.pop(0); component.append(...); scan
RECURSIVE BfsLoop(_, _, _, _, _)
BfsLoop(pts, km, queue, component, vis) ==
    IF queue = <<>> THEN [component |-> component, visited |-> vis]
    ELSE LET r == BfsScan(pts, km, Head(queue), 0, Tail(queue), vis)
         IN  BfsLoop(pts, km, r.queue, Append(component, Head(queue)), r.visited)

\* for i in range(len(strikes)): if i not in visited: ...; keep len(component) > 1
RECURSIVE BfsFrom(_, _, _, _, _)
BfsFrom(pts, km, i, vis, acc) ==
    IF i >= Len0(pts) THEN acc
    ELSE IF i \in vis THEN BfsFrom(pts, km, i + 1, vis, acc)
    ELSE LET r == BfsLoop(pts, km, <<i>>, <<>>, vis \cup {i})
         IN  BfsFrom(pts, km, i + 1, r.visited,
                 IF Len(r.component) > 1 THEN Append(acc, r.component) ELSE acc)

bfs_connected_components(pts, km) ==
    IF Len0(pts) = 0 THEN <<>> ELSE BfsFrom(pts, km, 0, {}, <<>>)

InitBfs ==
    /\ pc = "call"
    /\ impl = "app"
    /\ strikes \in PointSets
    /\ max_distance_km \in Thresholds
    /\ components = <<>>
    /\ IdleMst
    /\ IdleGreedy
    /\ IdleLog
    /\ IdleDecoders

\* if not strikes: return []
BfsEmpty ==
    /\ pc = "call"
    /\ Len0(strikes) = 0
    /\ components' = <<>>
    /\ pc' = "done"
    /\ UNCHANGED <<notBfs, impl, strikes, max_distance_km>>

BfsCall ==
    /\ pc = "call"
    /\ Len0(strikes) > 0
    /\ components' = bfs_connected_components(strikes, max_distance_km)
    /\ pc' = "done"
    /\ UNCHANGED <<notBfs, impl, strikes, max_distance_km>>

NextBfs ==
    \/ BfsEmpty
    \/ BfsCall

SpecBfs == InitBfs /\ [][NextBfs]_vars

\* the pairs of different points at distance <= max_distance_km
NearPairs ==
    {p \in (DOMAIN strikes) \X (DOMAIN strikes) :
        p[1] # p[2] /\ haversine_distance(strikes[p[1]], strikes[p[2]]) <= max_distance_km}

\* C4: bfs_connected_components returns components in which every point is at
\* most once and in at most one; two points share a component exactly when a
\* chain of points, each step <= max_distance_km, links them; every component
\* has more than one member; a point is absent exactly when no other point is
\* within max_distance_km of it
C4_BfsComponents ==
    pc = "done" =>
        /\ \A c \in 1..Len(components) :
            /\ Len(components[c]) > 1
            /\ Cardinality(RangeSeq(components[c])) = Len(components[c])
            /\ RangeSeq(components[c]) \subseteq DOMAIN strikes
        /\ \A c, d \in 1..Len(components) :
               c # d => RangeSeq(components[c]) \cap RangeSeq(components[d]) = {}
        /\ \A i, j \in DOMAIN strikes :
               i # j =>
                   ((\E c \in 1..Len(components) : {i, j} \subseteq RangeSeq(components[c]))
                        <=> j \in ReachVia(NearPairs, {i}))
        /\ \A i \in DOMAIN strikes :
               (\A c \in 1..Len(components) : i \notin RangeSeq(components[c]))
                   <=> (\A j \in DOMAIN strikes : <<i, j>> \notin NearPairs)

\* C4's case: three points chained within the threshold, two of them farther
\* apart than the threshold, form the one component; a fourth point is left out
C4_Witness ==
    /\ pc = "done"
    /\ Len0(strikes) = 4
    /\ Len(components) = 1
    /\ Len(components[1]) = 3
    /\ \E i, j \in RangeSeq(components[1]) : <<i, j>> \notin NearPairs /\ i # j

(***************************************************************************)
(* greedy_hotspot_selection (app.py). The result holds the indices of the  *)
(* selected points, in the order of the returned list.                     *)
(***************************************************************************)
\* radius_km, the default of _calculate_local_density, which no caller sets
RadiusKm == 50

_calculate_local_density(pts, i) ==
    Cardinality({j \in DOMAIN pts : haversine_distance(pts[i], pts[j]) <= RadiusKm})

\* weighted: the tuples (w, s), s as the index of the point
Weighted(pts) == [i \in 1..Len0(pts) |-> <<_calculate_local_density(pts, i - 1), i - 1>>]

\* an element goes before its equals: ties come out in reverse input order
RECURSIVE InsertDescendingUnstable(_, _)
InsertDescendingUnstable(sorted, x) ==
    IF sorted = <<>> THEN <<x>>
    ELSE IF Head(sorted)[1] > x[1]
         THEN <<Head(sorted)>> \o InsertDescendingUnstable(Tail(sorted), x)
         ELSE <<x>> \o sorted

\* an element goes after the elements whose key is >= its own
RECURSIVE InsertDescending(_, _)
InsertDescending(sorted, x) ==
    IF sorted = <<>> THEN <<x>>
    ELSE IF Head(sorted)[1] >= x[1]
         THEN <<Head(sorted)>> \o InsertDescending(Tail(sorted), x)
         ELSE <<x>> \o sorted

\* the sort without reverse=True
RECURSIVE InsertAscending(_, _)
InsertAscending(sorted, x) ==
    IF sorted = <<>> THEN <<x>>
    ELSE IF Head(sorted)[1] <= x[1]
         THEN <<Head(sorted)>> \o InsertAscending(Tail(sorted), x)
         ELSE <<x>> \o sorted

RECURSIVE SortAscendingByKey(_)
SortAscendingByKey(w) ==
    IF w = <<>> THEN <<>>
    ELSE InsertAscending(SortAscendingByKey(SubSeq(w, 1, Len(w) - 1)), w[Len(w)])

RECURSIVE SortDescendingUnstable(_)
SortDescendingUnstable(w) ==
    IF w = <<>> THEN <<>>
    ELSE InsertDescendingUnstable(SortDescendingUnstable(SubSeq(w, 1, Len(w) - 1)), w[Len(w)])

\* weighted.sort(reverse=True, key=lambda x: x[0]): list.sort is stable, and
\* with reverse=True elements of equal key keep their original order
RECURSIVE SortDescendingByKey(_)
SortDescendingByKey(w) ==
    IF w = <<>> THEN <<>>
    ELSE InsertDescending(SortDescendingByKey(SubSeq(w, 1, Len(w) - 1)), w[Len(w)])

\* the slice l[:n] of Python, n negative included
SliceTo(l, n) ==
    IF n >= 0 THEN SubSeq(l, 1, IF n < Len(l) THEN n ELSE Len(l))
    ELSE SubSeq(l, 1, IF Len(l) + n > 0 THEN Len(l) + n ELSE 0)

\* the sort without reverse=True
SortedAscending(pts) == SortAscendingByKey(Weighted(pts))

\* a descending sort that does not keep the input order of equal keys
SortedUnstable(pts) == SortDescendingUnstable(Weighted(pts))

\* the sorted list of the points; lines 83-87
SortedByDensity(pts) == SortDescendingByKey(Weighted(pts))

\* [s for _, s in weighted[:k]]
TopK(pts, kk) ==
    LET top == SliceTo(SortedByDensity(pts), kk)
    IN  [i \in 1..Len(top) |-> top[i][2]]

greedy_hotspot_selection(pts, kk) ==
    IF Len0(pts) <= kk THEN [i \in 1..Len0(pts) |-> i - 1] ELSE TopK(pts, kk)

InitGreedy ==
    /\ pc = "call"
    /\ impl = "app"
    /\ strikes \in PointSets
    /\ k \in (-NegK)..MaxK
    /\ hotspots = <<>>
    /\ IdleMst
    /\ IdleBfs
    /\ IdleLog
    /\ IdleDecoders

\* if len(strikes) <= k: return strikes
GreedyAll ==
    /\ pc = "call"
    /\ Len0(strikes) <= k
    /\ hotspots' = greedy_hotspot_selection(strikes, k)
    /\ pc' = "done"
    /\ UNCHANGED <<notGreedy, impl, strikes, k>>

GreedySelect ==
    /\ pc = "call"
    /\ Len0(strikes) > k
    /\ hotspots' = greedy_hotspot_selection(strikes, k)
    /\ pc' = "done"
    /\ UNCHANGED <<notGreedy, impl, strikes, k>>

NextGreedy ==
    \/ GreedyAll
    \/ GreedySelect

SpecGreedy == InitGreedy /\ [][NextGreedy]_vars

\* the number of input points within 50 km of point i, itself included
Density(i) ==
    Cardinality({j \in DOMAIN strikes : UnitKm * Abs(strikes[i] - strikes[j]) <= 50})

MinOf(a, b) == IF a <= b THEN a ELSE b

\* C5 as claimed, for every k: exactly min(k, n) points are returned, no point
\* left out is denser than a selected one, and n <= k returns the input as is
C5_TopKForEveryK ==
    pc = "done" =>
        /\ Len(hotspots) = MinOf(k, Len0(strikes))
        /\ \A i \in RangeSeq(hotspots) : \A j \in DOMAIN strikes \ RangeSeq(hotspots) :
               Density(j) <= Density(i)
        /\ Len0(strikes) <= k => hotspots = [i \in 1..Len0(strikes) |-> i - 1]

\* C5, amended: the same for every k >= 0
C5_TopK ==
    (pc = "done" /\ k >= 0) =>
        /\ Len(hotspots) = MinOf(k, Len0(strikes))
        /\ Cardinality(RangeSeq(hotspots)) = Len(hotspots)
        /\ \A i \in RangeSeq(hotspots) : \A j \in DOMAIN strikes \ RangeSeq(hotspots) :
               Density(j) <= Density(i)
        /\ Len0(strikes) <= k => hotspots = [i \in 1..Len0(strikes) |-> i - 1]

\* C5's case: a selection that leaves out points, some less dense than all
\* selected ones, out of points of different densities
C5_Witness ==
    /\ pc = "done"
    /\ k >= 1
    /\ Len0(strikes) > k
    /\ \E i \in RangeSeq(hotspots) : \E j \in DOMAIN strikes \ RangeSeq(hotspots) :
           Density(j) < Density(i)
    /\ hotspots[1] # 0

\* C6: when more than k points are given the output is in descending density
\* and points of equal density keep their input order, so of the points tied
\* at the cut-off density the earliest of the input are the selected ones
C6_StableDescending ==
    (pc = "done" /\ Len0(strikes) > k) =>
        /\ \A a, b \in 1..Len(hotspots) :
               a < b =>
                   \/ Density(hotspots[a]) > Density(hotspots[b])
                   \/ Density(hotspots[a]) = Density(hotspots[b]) /\ hotspots[a] < hotspots[b]
        /\ \A i \in RangeSeq(hotspots) : \A j \in DOMAIN strikes \ RangeSeq(hotspots) :
               Density(i) = Density(j) => i < j

\* C6's case: the cut falls between two points of equal density, and two
\* selected points are tied as well
C6_Witness ==
    /\ pc = "done"
    /\ k >= 2
    /\ Len0(strikes) > k
    /\ \E i \in RangeSeq(hotspots) : \E j \in DOMAIN strikes \ RangeSeq(hotspots) :
           Density(i) = Density(j)
    /\ \E a, b \in 1..Len(hotspots) : a # b /\ Density(hotspots[a]) = Density(hotspots[b])

(***************************************************************************)
(* JSON values. A value is a record [jt, jv]: jt its type, jv its      *)
(* content.                                                                *)
(* A number is kept in tenths (40.5 is 405), a string as the sequence of   *)
(* its code points, a dict as a record over Keys in which the keys it      *)
(* does not hold are Absent, a list as a sequence.                         *)
(***************************************************************************)
Keys ==
    {"index", "raw_message", "decoded", "success", "raw", "encoding", "error",
     "data", "lat", "lon", "mcg", "intensity"}

Absent == [jt |-> "absent", jv |-> 0]

\* None, and JSON's null
None == [jt |-> "null", jv |-> 0]

Num(n) == [jt |-> "num", jv |-> n]

Bool(b) == [jt |-> "bool", jv |-> b]

Str(cps) == [jt |-> "str", jv |-> cps]

List(l) == [jt |-> "list", jv |-> l]

Obj(f) == [jt |-> "obj", jv |-> [key \in Keys |-> IF key \in DOMAIN f THEN f[key] ELSE Absent]]

EmptyDict == Obj(<<>>)

\* isinstance(x, dict)
IsDict(x) == x.jt = "obj"

\* key in d
Has(d, key) == d.jv[key].jt # "absent"

\* d.get(key, default)
Get(d, key, default) == IF Has(d, key) THEN d.jv[key] ELSE default

\* the truth value of x, as `x or {}` and `if x` take it
Truthy(x) ==
    CASE x.jt = "null" -> FALSE
      [] x.jt = "absent" -> FALSE
      [] x.jt = "bool" -> x.jv
      [] x.jt = "num" -> x.jv # 0
      [] x.jt = "str" -> x.jv # <<>>
      [] x.jt = "list" -> x.jv # <<>>
      [] x.jt = "obj" -> \E key \in Keys : Has(x, key)
      [] OTHER -> TRUE

(***************************************************************************)
(* The texts the model knows: messages of the feed and raw_message fields. *)
(***************************************************************************)
\* {"data":{"lat":40.5,"lon":-75.2,"mcg":12}}
TextA ==
    <<123, 34, 100, 97, 116, 97, 34, 58, 123, 34, 108, 97, 116, 34, 58, 52, 48, 46, 53,
      44, 34, 108, 111, 110, 34, 58, 45, 55, 53, 46, 50, 44, 34, 109, 99, 103, 34, 58,
      49, 50, 125, 125>>

\* {"lat":1,"lon":2}
TextB == <<123, 34, 108, 97, 116, 34, 58, 49, 44, 34, 108, 111, 110, 34, 58, 50, 125>>

\* {"data":{"lat":40.5},"lat":1,"lon":2}
TextHalf ==
    <<123, 34, 100, 97, 116, 97, 34, 58, 123, 34, 108, 97, 116, 34, 58, 52, 48, 46, 53,
      125, 44, 34, 108, 97, 116, 34, 58, 49, 44, 34, 108, 111, 110, 34, 58, 50, 125>>

\* {"lat":1}
TextLatOnly == <<123, 34, 108, 97, 116, 34, 58, 49, 125>>

\* 7
TextNum == <<55>>

\* abc
TextJunk == <<97, 98, 99>>

\* 12.5
TextFloat == <<49, 50, 46, 53>>

\* {"lat":1,"lon":2} in the dictionary substitution of the feed:
\* {"lat":1, then code 257, on, code 261, 2}
TextLzw ==
    <<123, 34, 108, 97, 116, 34, 58, 49, 44, 257, 111, 110, 261, 50, 125>>

\* {"data":"\ud800"}: the escape of a lone surrogate
TextSurrogate ==
    <<123, 34, 100, 97, 116, 97, 34, 58, 34, 92, 117, 100, 56, 48, 48, 34, 125>>

\* {"lat":1,"lon":2,"mcg":"<0x80><0xff>"}
TextHigh ==
    <<123, 34, 108, 97, 116, 34, 58, 49, 44, 34, 108, 111, 110, 34, 58, 50, 44, 34, 109,
      99, 103, 34, 58, 34, 128, 255, 34, 125>>

\* {}
TextEmptyDict == <<123, 125>>

PayloadA == Obj([data |-> Obj([lat |-> Num(405), lon |-> Num(-752), mcg |-> Num(120)])])

PayloadB == Obj([lat |-> Num(10), lon |-> Num(20)])

PayloadHalf == Obj([data |-> Obj([lat |-> Num(405)]), lat |-> Num(10), lon |-> Num(20)])

PayloadLatOnly == Obj([lat |-> Num(10)])

PayloadSurrogate == Obj([data |-> Str(<<55296>>)])

PayloadHigh == Obj([lat |-> Num(10), lon |-> Num(20), mcg |-> Str(<<128, 255>>)])

Failed == [ok |-> FALSE, value |-> Absent]

Succeeded(x) == [ok |-> TRUE, value |-> x]

\* json.loads of a str, on the texts above; any other text of the model is
\* no JSON and raises JSONDecodeError
json_loads_text(cps) ==
    CASE cps = TextA -> Succeeded(PayloadA)
      [] cps = TextB -> Succeeded(PayloadB)
      [] cps = TextHalf -> Succeeded(PayloadHalf)
      [] cps = TextLatOnly -> Succeeded(PayloadLatOnly)
      [] cps = TextNum -> Succeeded(Num(70))
      [] cps = TextFloat -> Succeeded(Num(125))
      [] cps = TextSurrogate -> Succeeded(PayloadSurrogate)
      [] cps = TextHigh -> Succeeded(PayloadHigh)
      [] cps = TextEmptyDict -> Succeeded(EmptyDict)
      [] OTHER -> Failed

\* json.loads(x): TypeError when x is no str
json_loads(x) == IF x.jt = "str" THEN json_loads_text(x.jv) ELSE Failed

\* float(x): the value, or ValueError / TypeError
float(x) ==
    CASE x.jt = "num" -> Succeeded(x.jv)
      [] x.jt = "bool" -> Succeeded(IF x.jv THEN 10 ELSE 0)
      [] x.jt = "str" /\ x.jv = TextFloat -> Succeeded(125)
      [] x.jt = "str" /\ x.jv = TextNum -> Succeeded(70)
      [] OTHER -> Failed

(***************************************************************************)
(* The capture log as text: a sequence of tokens. A token is a JSON value  *)
(* (an entry) or one of "[", "]", ",", white space ("ws": the newlines the *)
(* collector writes), "junk" (text that is no JSON) and "partial" (an       *)
(* entry whose text breaks off).                                           *)
(***************************************************************************)
Tok(tag) == [jt |-> tag, jv |-> 0]

IsValueToken(x) == x.jt \in {"null", "bool", "num", "str", "list", "obj"}

\* str.strip(): the white space at both ends removed
RECURSIVE StripLeft(_)
StripLeft(toks) ==
    IF toks # <<>> /\ Head(toks).jt = "ws" THEN StripLeft(Tail(toks)) ELSE toks

RECURSIVE StripRight(_)
StripRight(toks) ==
    IF toks # <<>> /\ toks[Len(toks)].jt = "ws"
    THEN StripRight(SubSeq(toks, 1, Len(toks) - 1)) ELSE toks

Strip(toks) == StripRight(StripLeft(toks))

\* if raw.startswith("[") and not raw.endswith("]"): raw = raw + "]"
RepairBracket(raw) ==
    IF raw[1].jt = "[" /\ raw[Len(raw)].jt # "]" THEN Append(raw, Tok("]")) ELSE raw

\* value ("," value)*
RECURSIVE IsValueList(_)
IsValueList(toks) ==
    /\ toks # <<>>
    /\ IsValueToken(Head(toks))
    /\ \/ Len(toks) = 1
       \/ Len(toks) >= 3 /\ toks[2].jt = "," /\ IsValueList(SubSeq(toks, 3, Len(toks)))

\* json.loads of the file's text: one value, or an array of values; white
\* space between the tokens is skipped
json_loads_tokens(text) ==
    LET toks == SelectSeq(text, LAMBDA x : x.jt # "ws")
        inner == SubSeq(toks, 2, Len(toks) - 1)
    IN  IF Len(toks) = 1 /\ IsValueToken(toks[1]) THEN Succeeded(toks[1])
        ELSE IF Len(toks) >= 2 /\ toks[1].jt = "[" /\ toks[Len(toks)].jt = "]"
        THEN IF inner = <<>> THEN Succeeded(List(<<>>))
             ELSE IF IsValueList(inner)
             THEN Succeeded(List(SelectSeq(inner, IsValueToken)))
             ELSE Failed
        ELSE Failed

\* data[-limit:]
SliceLast(l, n) ==
    IF n = 0 THEN l
    ELSE IF n > 0 THEN SubSeq(l, IF Len(l) - n + 1 > 1 THEN Len(l) - n + 1 ELSE 1, Len(l))
    ELSE SubSeq(l, 1 - n, Len(l))

(***************************************************************************)
(* read_strikes_from_collector (app.py): the extraction of one entry.      *)
(***************************************************************************)
NoCandidate == Absent

\* lines 289-296: one container of the loop; NoCandidate when it does not match
ProbeContainer(container) ==
    IF ~IsDict(container) THEN NoCandidate
    ELSE IF /\ Has(container, "data")
            /\ IsDict(container.jv["data"])
            /\ Has(container.jv["data"], "lat")
            /\ Has(container.jv["data"], "lon")
         THEN container.jv["data"]
    ELSE IF Has(container, "lat") /\ Has(container, "lon") THEN container
    ELSE NoCandidate

\* lines 284-296: for container in (rawp, decp)
ProbeDecoded(parsed) ==
    IF ~Truthy(Get(parsed, "success", None)) THEN NoCandidate
    ELSE LET rawget == Get(parsed, "raw", None)
             decget == Get(parsed, "decoded", None)
             rawp == IF Truthy(rawget) THEN rawget ELSE EmptyDict
             decp == IF Truthy(decget) THEN decget ELSE EmptyDict
         IN  IF ProbeContainer(rawp) # NoCandidate THEN ProbeContainer(rawp)
             ELSE ProbeContainer(decp)

\* lines 298-307: the independent parse of raw_message
ProbeRawMessage(entry) ==
    LET rm == Get(entry, "raw_message", Str(<<>>))
        pm == json_loads(rm)
    IN  IF ~pm.ok \/ ~IsDict(pm.value) THEN NoCandidate
        ELSE IF /\ Has(pm.value, "data")
                /\ IsDict(pm.value.jv["data"])
                /\ Has(pm.value.jv["data"], "lat")
             THEN pm.value.jv["data"]
        ELSE IF Has(pm.value, "lat") /\ Has(pm.value, "lon") THEN pm.value
        ELSE NoCandidate

\* lines 283-307
Candidate(entry, parsed) ==
    IF ProbeDecoded(parsed) # NoCandidate THEN ProbeDecoded(parsed)
    ELSE ProbeRawMessage(entry)

\* lines 308-316: the points one candidate adds, none or one
PointsOfCandidate(candidate) ==
    IF candidate = NoCandidate \/ ~Truthy(candidate) THEN <<>>
    ELSE IF ~(Has(candidate, "lat") /\ Has(candidate, "lon")) THEN <<>>
    ELSE LET lat == float(candidate.jv["lat"])
             lon == float(candidate.jv["lon"])
             inten == float(Get(candidate, "mcg", Get(candidate, "intensity", Num(10))))
         IN  IF lat.ok /\ lon.ok /\ inten.ok
             THEN <<[lat |-> lat.value, lon |-> lon.value, intensity |-> inten.value]>>
             ELSE <<>>

ReadResult(raised, parsed, pts) == [raised |-> raised, parsed |-> parsed, strikes |-> pts]

\* lines 281-317: the loop over the entries. entry.get and parsed.get raise
\* AttributeError, which nothing catches, when entry or parsed is no dict
RECURSIVE ReadEntries(_, _)
ReadEntries(entries, acc) ==
    IF entries = <<>> THEN ReadResult(FALSE, TRUE, acc)
    ELSE LET entry == Head(entries)
             dec == IF IsDict(entry) THEN Get(entry, "decoded", None) ELSE None
             parsed == IF Truthy(dec) THEN dec ELSE EmptyDict
         IN  IF ~IsDict(entry) \/ ~IsDict(parsed) THEN ReadResult(TRUE, TRUE, acc)
             ELSE ReadEntries(Tail(entries), acc \o PointsOfCandidate(Candidate(entry, parsed)))

\* lines 266-317. data[-limit:] raises TypeError (KeyError for a dict) when
\* data is a dict, a number, a bool or None; a str is sliced and the
\* characters of the slice have no get
read_strikes_from_collector(f, lim) ==
    IF ~f.exists THEN ReadResult(FALSE, FALSE, <<>>)
    ELSE LET raw == Strip(f.content)
         IN  IF raw = <<>> THEN ReadResult(FALSE, FALSE, <<>>)
             ELSE LET data == json_loads_tokens(RepairBracket(raw))
                  IN  IF ~data.ok THEN ReadResult(FALSE, FALSE, <<>>)
                      ELSE IF data.value.jt = "str" /\ SliceLast(data.value.jv, lim) = <<>>
                      THEN ReadResult(FALSE, TRUE, <<>>)
                      ELSE IF data.value.jt # "list" THEN ReadResult(TRUE, TRUE, <<>>)
                      ELSE ReadEntries(SliceLast(data.value.jv, lim), <<>>)

(***************************************************************************)
(* The capture logs read_strikes_from_collector is given.                  *)
(***************************************************************************)
\* limit=500
DefaultLimit == 500

\* payloads in which a probe of the decoded message finds lat and lon: the
\* payloads of the messages, a data object beside top-level coordinates, a
\* data field that is no object, intensity, mcg and intensity, a latitude
\* that is a numeric str, one that is no number, and a null mcg
MatchingPayloads ==
    {PayloadA, PayloadB, PayloadHalf,
     Obj([data |-> Obj([lat |-> Num(405), lon |-> Num(-752), mcg |-> Num(120)]),
          lat |-> Num(10), lon |-> Num(20)]),
     Obj([data |-> Num(70), lat |-> Num(10), lon |-> Num(20)]),
     Obj([lat |-> Num(10), lon |-> Num(20), intensity |-> Num(30)]),
     Obj([lat |-> Num(10), lon |-> Num(20), mcg |-> Num(40), intensity |-> Num(30)]),
     Obj([lat |-> Str(TextFloat), lon |-> Num(20)]),
     Obj([lat |-> Str(TextJunk), lon |-> Num(20)]),
     Obj([lat |-> Num(10), lon |-> Num(20), mcg |-> None])}

DecodedOk(rawp, decp) == Obj([success |-> Bool(TRUE), raw |-> rawp, decoded |-> decp])

DecodedFailed == Obj([success |-> Bool(FALSE)])

\* `decoded` fields in which no probe matches: missing, null, no dict, a failed
\* decode, payloads without coordinates
UnmatchedDecoded ==
    {Absent, None, Str(TextJunk), DecodedFailed, DecodedOk(EmptyDict, EmptyDict),
     DecodedOk(PayloadLatOnly, PayloadLatOnly)}

\* `decoded` fields whose raw payload does not match and whose decoded one does
DecodedOnly == {DecodedOk(EmptyDict, PayloadB), DecodedOk(Str(TextJunk), PayloadB)}

RawMessages ==
    {Absent, Num(70), Str(TextJunk), Str(TextA), Str(TextB), Str(TextHalf), Str(TextLatOnly)}

Entry(dec, rm) == Obj([decoded |-> dec, raw_message |-> rm])

LogEntries ==
    {Num(70), Str(TextJunk)}
        \cup {Entry(d, rm) : d \in UnmatchedDecoded, rm \in RawMessages}
        \cup {Entry(d, Str(TextB)) : d \in DecodedOnly}
        \cup {Entry(DecodedOk(p, p), Str(TextB)) : p \in MatchingPayloads}
        \cup {Entry(DecodedOk(PayloadA, PayloadA), Str(TextA))}

\* the sequences of at most n entries
EntrySeqs(n) == UNION {[1..m -> LogEntries] : m \in 0..n}

\* the entries as the collector writes them: "[\n", then the entries with
\* ",\n" between them
RECURSIVE Joined(_)
Joined(es) ==
    IF es = <<>> THEN <<>>
    ELSE IF Len(es) = 1 THEN es
    ELSE <<Head(es), Tok(","), Tok("ws")>> \o Joined(Tail(es))

OpenLog(es) == <<Tok("["), Tok("ws")>> \o Joined(es)

ClosedLog(es) == OpenLog(es) \o <<Tok("ws"), Tok("]")>>

\* a log cut after a separator
CutLog(es) == OpenLog(es) \o <<Tok(","), Tok("ws")>>

LogContents(n) ==
    {<<>>, <<Tok("ws")>>, <<Tok("junk")>>, <<Tok("["), Tok("junk")>>}
        \cup {<<e>> : e \in LogEntries}
        \cup {OpenLog(es) : es \in EntrySeqs(n)}
        \cup {ClosedLog(es) : es \in EntrySeqs(n)}
        \cup {CutLog(es) : es \in EntrySeqs(n)}

LogFiles(n) ==
    {[exists |-> FALSE, content |-> <<>>]}
        \cup {[exists |-> TRUE, content |-> c] : c \in LogContents(n)}

Limits == (0..MaxLimit) \cup {DefaultLimit}

InitReader ==
    /\ pc = "call"
    /\ file \in LogFiles(MaxLogEntries)
    /\ limit \in Limits
    /\ result = ReadResult(FALSE, FALSE, <<>>)
    /\ IdleCollector
    /\ IdleAlgorithms
    /\ IdleDecoders

\* if not filename.exists(): return []
ReadMissing ==
    /\ pc = "call"
    /\ ~file.exists
    /\ result' = read_strikes_from_collector(file, limit)
    /\ pc' = "done"
    /\ UNCHANGED <<notLog, file, limit, collectorVars>>

\* the call on an existing file, to its return or to the exception it raises
ReadLog ==
    /\ pc = "call"
    /\ file.exists
    /\ result' = read_strikes_from_collector(file, limit)
    /\ pc' = "done"
    /\ UNCHANGED <<notLog, file, limit, collectorVars>>

NextReader ==
    \/ ReadMissing
    \/ ReadLog

SpecReader == InitReader /\ [][NextReader]_vars

(***************************************************************************)
(* Claims about read_strikes_from_collector.                               *)
(***************************************************************************)
\* the text of the file is a JSON array once a missing "]" is added
IsArrayText(toks) ==
    LET t == SelectSeq(toks, LAMBDA x : x.jt # "ws")
    IN  /\ Len(t) >= 1
        /\ t[1].jt = "["
        /\ \/ Len(t) = 1
           \/ Len(t) = 2 /\ t[2].jt = "]"
           \/ /\ t[Len(t)].jt = "]"
              /\ \A i \in 2..(Len(t) - 1) :
                     IF i % 2 = 0 THEN IsValueToken(t[i]) ELSE t[i].jt = ","
              /\ Len(t) % 2 = 1
           \/ /\ t[Len(t)].jt # "]"
              /\ \A i \in 2..Len(t) :
                     IF i % 2 = 0 THEN IsValueToken(t[i]) ELSE t[i].jt = ","
              /\ Len(t) % 2 = 0

\* the entries of the file
FileEntries == SelectSeq(file.content, IsValueToken)

\* C7: whatever the capture log holds, read_strikes_from_collector returns a
\* list and raises nothing; a log that cannot be used gives the empty list
C7_ReaderNeverRaises ==
    pc = "done" =>
        /\ ~result.raised
        /\ (~file.exists \/ ~IsArrayText(file.content)) => result.strikes = <<>>

\* the two probes of the claim: the nested data object when it holds lat and
\* lon, else the payload itself when it holds lat and lon
ClaimedProbe(payload) ==
    IF payload.jt # "obj" THEN Absent
    ELSE IF /\ payload.jv["data"].jt = "obj"
            /\ payload.jv["data"].jv["lat"].jt # "absent"
            /\ payload.jv["data"].jv["lon"].jt # "absent"
         THEN payload.jv["data"]
    ELSE IF payload.jv["lat"].jt # "absent" /\ payload.jv["lon"].jt # "absent"
         THEN payload
    ELSE Absent

\* the match of an entry as C10 states it: the probes on the payload of a
\* successful decode (as stored, then as normalized), and when neither
\* matched the same probes on the parse of raw_message
ClaimedMatch(entry) ==
    LET dec == entry.jv["decoded"]
        ok == dec.jt = "obj" /\ Truthy(dec.jv["success"])
        rm == entry.jv["raw_message"]
        pm == IF rm.jt = "str" THEN json_loads_text(rm.jv) ELSE Failed
    IN  IF ok /\ ClaimedProbe(dec.jv["raw"]) # Absent THEN ClaimedProbe(dec.jv["raw"])
        ELSE IF ok /\ ClaimedProbe(dec.jv["decoded"]) # Absent
             THEN ClaimedProbe(dec.jv["decoded"])
        ELSE IF pm.ok THEN ClaimedProbe(pm.value)
        ELSE Absent

\* the point of a match: floats, intensity from mcg, else intensity, else 1.0
ClaimedPoints(c) ==
    IF c = Absent THEN <<>>
    ELSE LET i == IF c.jv["mcg"].jt # "absent" THEN c.jv["mcg"]
                  ELSE IF c.jv["intensity"].jt # "absent" THEN c.jv["intensity"]
                  ELSE Num(10)
         IN  IF float(c.jv["lat"]).ok /\ float(c.jv["lon"]).ok /\ float(i).ok
             THEN <<[lat |-> float(c.jv["lat"]).value,
                     lon |-> float(c.jv["lon"]).value,
                     intensity |-> float(i).value]>>
             ELSE <<>>

RECURSIVE ClaimedStrikes(_)
ClaimedStrikes(entries) ==
    IF entries = <<>> THEN <<>>
    ELSE ClaimedPoints(ClaimedMatch(Head(entries))) \o ClaimedStrikes(Tail(entries))

\* the file is a JSON array of objects whose `decoded` is an object or missing
WellShaped ==
    /\ file.exists
    /\ IsArrayText(file.content)
    /\ \A i \in 1..Len(FileEntries) :
        /\ FileEntries[i].jt = "obj"
        /\ FileEntries[i].jv["decoded"].jt \in {"obj", "absent"}

\* C10: the points of a log are, entry by entry, the first match of the probes
\* (a), (b), (c), coerced to floats; an entry without match or with a failed
\* coercion adds no point and the later entries are still processed; the log
\* of scenario A gives the one point (40.5, -75.2, 12)
C10_ProbesInOrder ==
    (pc = "done" /\ WellShaped) =>
        /\ ~result.raised
        /\ result.strikes = ClaimedStrikes(SliceLast(FileEntries, limit))
        /\ file.content = ClosedLog(<<Entry(DecodedOk(PayloadA, PayloadA), Str(TextA))>>)
               => result.strikes = <<[lat |-> 405, lon |-> -752, intensity |-> 120]>>

(***************************************************************************)
(* The collector (blitzortung_parser.py).  A frame is a str, a bytes       *)
(* object or a dict with the keys opcode, data and payloadData; bytes are  *)
(* sequences of byte values.  The timestamp of an entry is left out.       *)
(***************************************************************************)
\* the integer n as a JSON number (numbers are held in tenths)
Whole(n) == Num(10 * n)

Bytes(bs) == [jt |-> "bytes", jv |-> bs]

FrameKeys == {"opcode", "data", "payloadData"}

Dict(f) ==
    [jt |-> "dict",
     jv |-> [key \in FrameKeys |-> IF key \in DOMAIN f THEN f[key] ELSE Absent]]

\* the raw-deflate stream of {"lat":1,"lon":2}
DeflatedB ==
    <<171, 86, 202, 73, 44, 81, 178, 50, 212, 81, 202, 201, 207, 83, 178, 50, 170, 5, 0>>

\* xx: bytes that are no deflate stream
GarbageBytes == <<120, 120>>

\* "plain_json"
PlainJson ==
    <<112, 108, 97, 105, 110, 95, 106, 115, 111, 110>>

\* "blitzortung_lzw_string_obfuscation"
LzwObfuscation ==
    <<98, 108, 105, 116, 122, 111, 114, 116, 117, 110, 103, 95, 108, 122, 119, 95, 115,
      116, 114, 105, 110, 103, 95, 111, 98, 102, 117, 115, 99, 97, 116, 105, 111, 110>>

\* the error text of a failed decode, without the texts of the two exceptions
ParseErrorText ==
    <<74, 83, 79, 78, 32, 80, 97, 114, 115, 101, 32, 69, 114, 114, 111, 114, 46, 32, 68,
      105, 114, 101, 99, 116, 32, 112, 97, 114, 115, 101, 32, 102, 97, 105, 108, 101, 100,
      32, 119, 105, 116, 104, 58, 32, 59, 32, 76, 90, 87, 45, 115, 116, 121, 108, 101, 32,
      100, 101, 99, 111, 100, 101, 32, 102, 97, 105, 108, 101, 100, 32, 119, 105, 116,
      104, 58, 32>>

\* raw_message[:200]
PrefixLen == 200

\* a decompression that gives the empty text where zlib raises
DecompressOrEmpty(data) ==
    IF data.jt = "bytes" /\ data.jv = DeflatedB THEN Str(TextB) ELSE Str(<<>>)

\* zlib.decompress(data, -zlib.MAX_WBITS).decode("utf-8", errors="replace") on
\* the byte strings of the model, None when zlib raises or data is no bytes
decompress_ws(data) ==
    IF data.jt = "bytes" /\ data.jv = DeflatedB THEN Str(TextB) ELSE None

\* an iteration that takes the characters below 255 only for literals
LzwStepBelow255(st) ==
    LET code == Head(st.chars)
        entry == IF code < 255 THEN <<code>>
                 ELSE IF code - 255 \in DOMAIN st.dictionary
                      THEN st.dictionary[code - 255]
                 ELSE st.prev \o st.head
        head == <<entry[1]>>
    IN  [chars |-> Tail(st.chars), prev |-> entry, head |-> head,
         dictionary |-> Append(st.dictionary, st.prev \o head),
         out |-> st.out \o entry]

\* an iteration that registers the previous string with its own first
\* character
LzwStepOldHead(st) ==
    LET code == Head(st.chars)
        entry == IF code < 256 THEN <<code>>
                 ELSE IF code - 255 \in DOMAIN st.dictionary
                      THEN st.dictionary[code - 255]
                 ELSE st.prev \o st.head
        head == <<entry[1]>>
    IN  [chars |-> Tail(st.chars), prev |-> entry, head |-> head,
         dictionary |-> Append(st.dictionary, st.prev \o st.head),
         out |-> st.out \o entry]

\* one iteration of `for ch in chars[1:]`. The state of the loop is the
\* record st: chars the characters still to come, and prev, head, dictionary,
\* out as in the source; the dictionary holds the codes 256 .. next_code - 1,
\* dictionary[i] the string of code 255 + i
LzwStep(st) ==
    LET code == Head(st.chars)
        entry == IF code < 256 THEN <<code>>
                 ELSE IF code - 255 \in DOMAIN st.dictionary
                      THEN st.dictionary[code - 255]
                 ELSE st.prev \o st.head
        head == <<entry[1]>>
    IN  [chars |-> Tail(st.chars), prev |-> entry, head |-> head,
         dictionary |-> Append(st.dictionary, st.prev \o head),
         out |-> st.out \o entry]

\* the iterations of the loop, at most n of them, one after the other: the
\* first half of them, then the rest
RECURSIVE LzwLoop(_, _)
LzwLoop(st, n) ==
    IF st.chars = <<>> \/ n = 0 THEN st
    ELSE IF n = 1 THEN LzwStep(st)
    ELSE LzwLoop(LzwLoop(st, n \div 2), n - (n \div 2))

blitzortung_lzw_decode(enc) ==
    IF enc = <<>> THEN <<>>
    ELSE LzwLoop([chars |-> Tail(enc), prev |-> <<enc[1]>>,
                  head |-> <<enc[1]>>, dictionary |-> <<>>,
                  out |-> <<enc[1]>>],
                 Len(enc) - 1).out

HexDigit(d) == IF d < 10 THEN 48 + d ELSE 87 + d

\* bytes.hex()
RECURSIVE Hex(_)
Hex(bs) ==
    IF bs = <<>> THEN <<>>
    ELSE <<HexDigit(Head(bs) \div 16), HexDigit(Head(bs) % 16)>> \o Hex(Tail(bs))

\* a decoding that reads two bytes with the low byte first
DecodeLittleEndian(value) ==
    IF value.jt # "str" THEN value
    ELSE IF ~\E i \in DOMAIN value.jv : value.jv[i] > 127 THEN value
    ELSE IF \E i \in DOMAIN value.jv : value.jv[i] > 255 THEN value
    ELSE IF Len(value.jv) = 2 THEN Whole(256 * value.jv[2] + value.jv[1])
    ELSE IF Len(value.jv) = 4
         THEN Whole(16777216 * value.jv[1] + 65536 * value.jv[2]
                      + 256 * value.jv[3] + value.jv[4])
    ELSE Str(Hex(value.jv))

\* a decoding that drops the first byte of the strings it cannot read as a
\* number
DecodeDropsFirst(value) ==
    IF value.jt # "str" THEN value
    ELSE IF ~\E i \in DOMAIN value.jv : value.jv[i] > 127 THEN value
    ELSE IF \E i \in DOMAIN value.jv : value.jv[i] > 255 THEN value
    ELSE IF Len(value.jv) = 2 THEN Whole(256 * value.jv[1] + value.jv[2])
    ELSE IF Len(value.jv) = 4
         THEN Whole(16777216 * value.jv[1] + 65536 * value.jv[2]
                      + 256 * value.jv[3] + value.jv[4])
    ELSE Str(Tail(value.jv))

decode_binary_value(value) ==
    IF value.jt # "str" THEN value
    ELSE IF ~\E i \in DOMAIN value.jv : value.jv[i] > 127 THEN value
    ELSE IF \E i \in DOMAIN value.jv : value.jv[i] > 255 THEN value
    ELSE IF Len(value.jv) = 2 THEN Whole(256 * value.jv[1] + value.jv[2])
    ELSE IF Len(value.jv) = 4
         THEN Whole(16777216 * value.jv[1] + 65536 * value.jv[2]
                      + 256 * value.jv[3] + value.jv[4])
    ELSE Str(Hex(value.jv))

RECURSIVE clean_lightning_data(_)
clean_lightning_data(data) ==
    CASE data.jt = "obj" ->
            [jt |-> "obj",
             jv |-> [key \in Keys |-> IF Has(data, key)
                                      THEN clean_lightning_data(data.jv[key])
                                      ELSE Absent]]
      [] data.jt = "list" ->
            List([i \in 1..Len(data.jv) |-> clean_lightning_data(data.jv[i])])
      [] data.jt = "str" -> decode_binary_value(data)
      [] OTHER -> data

\* the message kept whole
WholeMessage(cps) == cps

\* message_str[:200]
Prefix(cps) == IF Len(cps) > PrefixLen THEN SubSeq(cps, 1, PrefixLen) ELSE cps

parse_lightning_message(cps) ==
    LET first == json_loads_text(cps)
        second == json_loads_text(blitzortung_lzw_decode(cps))
    IN  IF first.ok
        THEN Obj([success |-> Bool(TRUE), raw |-> first.value,
                  decoded |-> clean_lightning_data(first.value),
                  encoding |-> Str(PlainJson)])
        ELSE IF second.ok
        THEN Obj([success |-> Bool(TRUE), raw |-> second.value,
                  decoded |-> clean_lightning_data(second.value),
                  encoding |-> Str(LzwObfuscation)])
        ELSE Obj([success |-> Bool(FALSE), error |-> Str(ParseErrorText),
                  raw_message |-> Str(Prefix(cps))])

\* the decimal digits of a natural number
RECURSIVE Digits(_)
Digits(n) == IF n < 10 THEN <<48 + n>> ELSE Digits(n \div 10) \o <<48 + (n % 10)>>

\* the quote repr() puts around a str or bytes: " when the text holds ' and
\* no ", else '
ReprQuote(cps) ==
    IF (\E i \in DOMAIN cps : cps[i] = 39) /\ ~(\E i \in DOMAIN cps : cps[i] = 34)
    THEN 34 ELSE 39

\* repr() of one byte, or of one character below 128
ReprChar(c, quote) ==
    CASE c = 92 -> <<92, 92>>
      [] c = quote -> <<92, c>>
      [] c = 9 -> <<92, 116>>
      [] c = 10 -> <<92, 110>>
      [] c = 13 -> <<92, 114>>
      [] c < 32 \/ c > 126 -> <<92, 120, HexDigit(c \div 16), HexDigit(c % 16)>>
      [] OTHER -> <<c>>

RECURSIVE ReprChars(_, _)
ReprChars(cps, quote) ==
    IF cps = <<>> THEN <<>>
    ELSE ReprChar(Head(cps), quote) \o ReprChars(Tail(cps), quote)

\* repr() of the values a frame holds; the strs inside the dict frames of the
\* model are ASCII
Repr(x) ==
    CASE x.jt = "str" -> <<ReprQuote(x.jv)>> \o ReprChars(x.jv, ReprQuote(x.jv))
                             \o <<ReprQuote(x.jv)>>
      [] x.jt = "bytes" -> <<98, ReprQuote(x.jv)>> \o ReprChars(x.jv, ReprQuote(x.jv))
                               \o <<ReprQuote(x.jv)>>
      [] x.jt = "num" -> Digits(x.jv \div 10)
      [] OTHER -> <<78, 111, 110, 101>>

\* repr() of a dict frame, its items as 'key': value; the keys are in the
\* order opcode, data, payloadData
ReprDict(d) ==
    LET items == SelectSeq(<<<<"opcode", <<111, 112, 99, 111, 100, 101>>>>,
                             <<"data", <<100, 97, 116, 97>>>>,
                             <<"payloadData",
                               <<112, 97, 121, 108, 111, 97, 100, 68, 97, 116, 97>>>>>>,
                           LAMBDA it : Has(d, it[1]))
        Join[i \in 0..Len(items)] ==
            IF i = 0 THEN <<>>
            ELSE Join[i - 1] \o (IF i > 1 THEN <<44, 32>> ELSE <<>>)
                     \o <<39>> \o items[i][2] \o <<39, 58, 32>>
                     \o Repr(d.jv[items[i][1]])
    IN  <<123>> \o Join[Len(items)] \o <<125>>

\* str(x)
str(x) ==
    CASE x.jt = "str" -> x
      [] x.jt = "dict" -> Str(ReprDict(x))
      [] OTHER -> Str(Repr(x))

\* save_message up to the call of parse_lightning_message: the message
\* string, None when the frame is dropped
MessageString(frame) ==
    LET isdict == frame.jt = "dict"
        opcode == IF isdict THEN frame.jv["opcode"] ELSE Absent
        possible == IF isdict THEN frame.jv["payloadData"] ELSE Absent
        bytes1 == IF opcode = Whole(2) THEN Get(frame, "data", None) ELSE None
        raw_bytes == IF possible.jt = "bytes" THEN possible ELSE bytes1
        \* the text of a dict frame, which the branches below overwrite
        text1 == IF opcode = Whole(1) THEN str(Get(frame, "data", Str(<<>>))) ELSE Str(<<>>)
        text == IF possible.jt = "str" THEN possible ELSE text1
    IN  IF raw_bytes # None THEN decompress_ws(raw_bytes)
        ELSE IF frame.jt = "str" THEN frame
        ELSE str(frame)

\* a str the utf-8 codec can encode: no surrogate in it
RECURSIVE Encodable(_)
Encodable(x) ==
    CASE x.jt = "str" -> \A i \in DOMAIN x.jv : x.jv[i] < 55296 \/ x.jv[i] > 57343
      [] x.jt = "obj" -> \A key \in Keys : Encodable(x.jv[key])
      [] x.jt = "list" -> \A i \in DOMAIN x.jv : Encodable(x.jv[i])
      [] OTHER -> TRUE

\* json.dump(entry, f, ensure_ascii=False, indent=2) writes the entry piece by
\* piece: the pieces before a str that cannot be encoded reach the file
json_dump(entry) == IF Encodable(entry) THEN <<entry>> ELSE <<Tok("partial")>>

(***************************************************************************)
(* The collector at work: frames arrive while the page is open and, the    *)
(* handlers being tasks of the event loop, while the browser closes after  *)
(* finalize_file; app.py reads the log at any moment between two calls.    *)
(***************************************************************************)
\* most frames that save_message counts in decode_stats
MaxTotal == 2

\* a text of more than 200 characters that is no JSON: aaa...
TextLong == [i \in 1..(PrefixLen + 1) |-> 97]

Frames ==
    {Str(TextA), Str(TextHalf), Str(TextJunk), Str(TextLzw), Str(TextSurrogate),
     Str(TextHigh), Str(<<>>), Str(TextLong),
     Bytes(DeflatedB), Bytes(GarbageBytes),
     Dict([opcode |-> Whole(2), data |-> Bytes(DeflatedB)]),
     Dict([opcode |-> Whole(2), data |-> Bytes(GarbageBytes)]),
     Dict([opcode |-> Whole(2)]),
     Dict([opcode |-> Whole(1), data |-> Str(TextB)]),
     Dict([payloadData |-> Str(TextB)]),
     Dict([payloadData |-> Bytes(DeflatedB)]),
     Dict(<<>>)}

\* BlitzortungRawCollector.__init__
InitCollector ==
    /\ pc = "collect"
    /\ file = [exists |-> TRUE, content |-> <<Tok("["), Tok("ws")>>]
    /\ message_count = 0
    /\ decode_stats = [total |-> 0, decoded_success |-> 0, decode_failed |-> 0]
    /\ message = Absent
    /\ message_str = Absent
    /\ limit = DefaultLimit
    /\ result = ReadResult(FALSE, FALSE, <<>>)
    /\ IdleAlgorithms
    /\ IdleDecoders

save_message(frame) ==
    LET s == MessageString(frame)
        parsed_result == parse_lightning_message(s.jv)
        success == Truthy(parsed_result.jv["success"])
        entry == Obj([index |-> Whole(message_count), raw_message |-> s,
                      decoded |-> parsed_result])
        written == (IF message_count > 0 THEN <<Tok(","), Tok("ws")>> ELSE <<>>)
                       \o json_dump(entry)
    IN  /\ message' = frame
        /\ message_str' = s
        /\ IF s = None
           THEN UNCHANGED <<file, message_count, decode_stats>>
           ELSE /\ decode_stats' =
                       [total |-> decode_stats.total + 1,
                        decoded_success |-> decode_stats.decoded_success
                                                + (IF success THEN 1 ELSE 0),
                        decode_failed |-> decode_stats.decode_failed
                                              + (IF success THEN 0 ELSE 1)]
                /\ file' = [file EXCEPT !.content = @ \o written]
                \* the exception of a failed write is caught after the counters
                \* of the decode and before message_count += 1
                /\ message_count' =
                       IF Encodable(entry) THEN message_count + 1 ELSE message_count

\* on_frame: a frame of the websocket
OnFrame ==
    /\ pc \in {"collect", "closing"}
    /\ decode_stats.total < MaxTotal
    /\ \E frame \in Frames : save_message(frame)
    /\ UNCHANGED <<pc, notLog, limit, result>>

\* finalize_file
FinalizeFile ==
    /\ pc = "collect"
    /\ file' = [file EXCEPT !.content = @ \o <<Tok("ws"), Tok("]")>>]
    /\ pc' = "closing"
    /\ UNCHANGED <<notLog, limit, result, collectorVars>>

\* app.py reads the log the collector is writing
ReadCapture ==
    /\ pc \in {"collect", "closing"}
    /\ result' = read_strikes_from_collector(file, limit)
    /\ pc' = "done"
    /\ UNCHANGED <<notLog, file, limit, collectorVars>>

NextCollector == OnFrame \/ FinalizeFile \/ ReadCapture

SpecCollector == InitCollector /\ [][NextCollector]_vars

(***************************************************************************)
(* Claims about the collector.                                             *)
(***************************************************************************)
\* no save_message came after finalize_file: a "]" in the log is the last
\* thing written
NoSaveAfterFinalize ==
    \A i \in 1..Len(file.content) : file.content[i].jt = "]" => i = Len(file.content)

\* the log once finalize_file has closed it
Finalized ==
    IF file.content[Len(file.content)].jt = "]" THEN file
    ELSE [file EXCEPT !.content = @ \o <<Tok("ws"), Tok("]")>>]

\* C8: a read between two complete operations of the collector (after the
\* file is created, after any number of completed save_message calls, before
\* or after finalize_file) parses the log and yields the points of all the
\* entries persisted so far, the points it yields once the log is finalized
C8_ConcurrentRead ==
    (pc = "done" /\ NoSaveAfterFinalize) =>
        /\ result.parsed
        /\ ~result.raised
        /\ result.strikes = ReadEntries(FileEntries, <<>>).strikes
        /\ result.strikes = read_strikes_from_collector(Finalized, limit).strikes

IsTextFrame(frame) ==
    \/ frame.jt = "str"
    \/ frame.jt = "dict" /\ frame.jv["opcode"] = Whole(1) /\ frame.jv["data"].jt = "str"
    \/ frame.jt = "dict" /\ frame.jv["payloadData"].jt = "str"

IsBinaryFrame(frame) ==
    \/ frame.jt = "bytes"
    \/ frame.jt = "dict" /\ frame.jv["opcode"] = Whole(2) /\ frame.jv["data"].jt = "bytes"
    \/ frame.jt = "dict" /\ frame.jv["payloadData"].jt = "bytes"

\* the payload of a frame
Payload(frame) ==
    IF frame.jt # "dict" THEN frame
    ELSE IF Has(frame, "payloadData") THEN frame.jv["payloadData"]
    ELSE frame.jv["data"]

\* C9: the message string save_message hands to parse_lightning_message is
\* the text payload unchanged for a text frame (a str, a dict with opcode 1
\* or a str payloadData) and the raw-deflate decompression of the payload for
\* a binary frame (bytes, a dict with opcode 2 or a bytes payloadData)
C9_MessageString ==
    /\ IsTextFrame(message) => message_str = Payload(message)
    /\ IsBinaryFrame(message) => message_str = decompress_ws(Payload(message))

\* neither the plain parse nor the parse of the dictionary substitution
\* decodes the text
BothDecodesFail(cps) ==
    ~json_loads_text(cps).ok /\ ~json_loads_text(blitzortung_lzw_decode(cps)).ok

\* the entries of the log whose decode succeeded
DecodedEntries ==
    SelectSeq(FileEntries, LAMBDA e : e.jv["decoded"].jv["success"] = Bool(TRUE))

UndecodableBinary(frame) ==
    /\ frame.jt = "dict"
    /\ IsBinaryFrame(frame)
    /\ Payload(frame).jv # DeflatedB

MostRecent(entries, n) ==
    [i \in 1..(IF n < Len(entries) THEN n ELSE Len(entries)) |->
        entries[Len(entries) - (IF n < Len(entries) THEN n ELSE Len(entries)) + i]]

\* C13: for every limit N >= 0 a read that returns derives its points from
\* the N most recent entries of the log only, in log order, and so returns at
\* most N points
C13_MostRecentN ==
    (pc = "done" /\ result.parsed /\ ~result.raised /\ limit >= 0) =>
        /\ result.strikes = ReadEntries(MostRecent(FileEntries, limit), <<>>).strikes
        /\ Len(result.strikes) <= limit

(***************************************************************************)
(* blitzortung_lzw_decode, one character at a time.                        *)
(***************************************************************************)
\* longest encoded string
MaxEncoded == 4

\* the characters of the encoded strings: literals, the first codes of the
\* dictionary and a code far beyond it
EncodedChars == {97, 98, 255, 256, 257, 258, 300}

EncodedStrings == UNION {[1..n -> EncodedChars] : n \in 0..MaxEncoded}

InitLzw ==
    /\ pc = "call"
    /\ encoded \in EncodedStrings
    /\ lzw = [chars |-> <<>>, prev |-> <<>>, head |-> <<>>, dictionary |-> <<>>,
              out |-> <<>>]
    /\ raw_data = None
    /\ cleaned_data = <<>>
    /\ IdleAlgorithms
    /\ IdleLog

\* if not encoded: return ""
LzwEmpty ==
    /\ pc = "call"
    /\ encoded = <<>>
    /\ pc' = "done"
    /\ UNCHANGED <<notDecoders, decoderVars>>

\* the first character is literal
LzwFirst ==
    /\ pc = "call"
    /\ encoded # <<>>
    /\ lzw' = [chars |-> Tail(encoded), prev |-> <<encoded[1]>>,
               head |-> <<encoded[1]>>, dictionary |-> <<>>, out |-> <<encoded[1]>>]
    /\ pc' = "loop"
    /\ UNCHANGED <<notDecoders, encoded, raw_data, cleaned_data>>

\* for ch in chars[1:]
LzwChar ==
    /\ pc = "loop"
    /\ lzw.chars # <<>>
    /\ lzw' = LzwStep(lzw)
    /\ UNCHANGED <<pc, notDecoders, encoded, raw_data, cleaned_data>>

\* return "".join(out)
LzwReturn ==
    /\ pc = "loop"
    /\ lzw.chars = <<>>
    /\ pc' = "done"
    /\ UNCHANGED <<notDecoders, decoderVars>>

NextLzw == LzwEmpty \/ LzwFirst \/ LzwChar \/ LzwReturn

SpecLzw == InitLzw /\ [][NextLzw]_vars

\* C14: blitzortung_lzw_decode returns its input unchanged when every code
\* point of the input is below 256, the empty string and the strings of one
\* character included
C14_LiteralsUnchanged ==
    (pc = "done" /\ \A i \in DOMAIN encoded : encoded[i] < 256) =>
        /\ lzw.out = encoded
        /\ blitzortung_lzw_decode(encoded) = encoded

\* a string of several literals, the highest of them included, was decoded
C14_Witness ==
    /\ pc = "done"
    /\ Len(encoded) >= 3
    /\ \A i \in DOMAIN encoded : encoded[i] < 256
    /\ \E i \in DOMAIN encoded : encoded[i] = 255
    /\ lzw.out = encoded

\* the reference decoder on the first m characters of e: Emitted[i] is the
\* string emitted for character i, and character j >= 2 registers
\* Emitted[j - 1] with the first character of Emitted[j] under code 254 + j
ReferenceEmitted(e, m) ==
    LET Emitted[i \in 1..m] ==
            IF i = 1 \/ e[i] < 256 THEN <<e[i]>>
            ELSE IF e[i] - 254 \in 2..(i - 1)
                 THEN Emitted[e[i] - 255] \o <<Emitted[e[i] - 254][1]>>
            ELSE Emitted[i - 1] \o <<Emitted[i - 1][1]>>
    IN  Emitted

\* the entry the reference decoder holds under a code after m characters
ReferenceEntry(e, m, code) ==
    ReferenceEmitted(e, m)[code - 255] \o <<ReferenceEmitted(e, m)[code - 254][1]>>

RECURSIVE Concatenation(_, _)
Concatenation(f, m) == IF m = 0 THEN <<>> ELSE Concatenation(f, m - 1) \o f[m]

\* C15: blitzortung_lzw_decode is the reference decoder: after m characters
\* its output is the concatenation of the strings the reference emits, its
\* dictionary holds exactly the codes 256 .. 256 + m - 2 with the entries of
\* the reference, and it starts from an empty dictionary for every message
C15_ReferenceDecoder ==
    LET m == Len(encoded) - Len(lzw.chars)
    IN  /\ (pc \in {"loop", "done"} /\ encoded # <<>>) =>
               /\ lzw.out = Concatenation(ReferenceEmitted(encoded, m), m)
               /\ Len(lzw.dictionary) = m - 1
               /\ \A code \in 256..(256 + m - 2) :
                      lzw.dictionary[code - 255] = ReferenceEntry(encoded, m, code)
        /\ pc = "call" => lzw.dictionary = <<>>
        /\ pc = "done" =>
               blitzortung_lzw_decode(encoded)
                   = Concatenation(ReferenceEmitted(encoded, Len(encoded)), Len(encoded))

\* a string was decoded in which one code is in the dictionary and one is not
\* yet in it
C15_Witness ==
    /\ pc = "done"
    /\ Len(encoded) = 4
    /\ \E i \in 2..4 : encoded[i] >= 256 /\ encoded[i] - 254 \in 2..(i - 1)
    /\ \E i \in 2..4 : encoded[i] >= 256 /\ encoded[i] - 254 >= i
    /\ Len(lzw.dictionary) = 3

(***************************************************************************)
(* clean_lightning_data on the values json.loads returns.                  *)
(***************************************************************************)
\* longest str
MaxStr == 4
\* longest str inside a dict or a list
MaxInner == 2

\* the characters of the strs: ASCII, a high byte, a character beyond
\* latin-1
StrChars == {1, 65, 200, 300}

\* the strs of at most n characters; a str of 4 bytes is left out when its
\* number, held in tenths, is beyond the integers of the model
Strs(n) ==
    {s \in UNION {[1..m -> StrChars] : m \in 0..n} :
        ~(/\ Len(s) = 4
          /\ s[1] > 1
          /\ \A i \in 1..4 : s[i] <= 255
          /\ \E i \in 1..4 : s[i] > 127)}

\* the values that are no dict and no list
Leaves(n) == {Str(s) : s \in Strs(n)} \cup {None, Bool(TRUE), Num(15)}

JsonValues ==
    Leaves(MaxStr)
        \cup {Obj([data |-> x, lat |-> y]) : x, y \in Leaves(MaxInner)}
        \cup {List(<<x, y>>) : x, y \in Leaves(MaxInner)}
        \cup {Obj([data |-> List(<<x>>)]) : x \in Leaves(MaxInner)}
        \cup {List(<<Obj([mcg |-> x])>>) : x \in Leaves(MaxInner)}
        \cup {List(<<>>), EmptyDict}

InitClean ==
    /\ pc = "call"
    /\ raw_data \in JsonValues
    /\ cleaned_data = <<>>
    /\ encoded = <<>>
    /\ lzw = [chars |-> <<>>, prev |-> <<>>, head |-> <<>>, dictionary |-> <<>>,
              out |-> <<>>]
    /\ IdleAlgorithms
    /\ IdleLog

\* cleaned_data = clean_lightning_data(raw_data)
Clean ==
    /\ pc = "call"
    /\ cleaned_data' = <<clean_lightning_data(raw_data)>>
    /\ pc' = "done"
    /\ UNCHANGED <<notDecoders, encoded, lzw, raw_data>>

\* clean_lightning_data on the value it returned
CleanAgain ==
    /\ pc = "done"
    /\ cleaned_data' = Append(cleaned_data, clean_lightning_data(cleaned_data[1]))
    /\ pc' = "again"
    /\ UNCHANGED <<notDecoders, encoded, lzw, raw_data>>

NextClean == Clean \/ CleanAgain

SpecClean == InitClean /\ [][NextClean]_vars

\* the lowercase hexadecimal digits of the bytes
HexText(bs) ==
    LET digits == <<48, 49, 50, 51, 52, 53, 54, 55, 56, 57, 97, 98, 99, 100, 101, 102>>
    IN  [i \in 1..(2 * Len(bs)) |->
            IF i % 2 = 1 THEN digits[(bs[(i + 1) \div 2] \div 16) + 1]
            ELSE digits[(bs[i \div 2] % 16) + 1]]

\* what C16 states for a str
DecodedStr(s) ==
    IF \A i \in DOMAIN s : s[i] <= 127 THEN Str(s)
    ELSE IF \E i \in DOMAIN s : s[i] > 255 THEN Str(s)
    ELSE IF Len(s) = 2 THEN Num(10 * (256 * s[1] + s[2]))
    ELSE IF Len(s) = 4 THEN Num(10 * (((s[1] * 256 + s[2]) * 256 + s[3]) * 256 + s[4]))
    ELSE Str(HexText(s))

\* what C16 states for a value: the strs inside it decoded, keys and order
\* kept
RECURSIVE DecodedValue(_)
DecodedValue(x) ==
    CASE x.jt = "str" -> DecodedStr(x.jv)
      [] x.jt = "list" -> [jt |-> "list",
                           jv |-> [i \in DOMAIN x.jv |-> DecodedValue(x.jv[i])]]
      [] x.jt = "obj" -> [jt |-> "obj",
                          jv |-> [key \in DOMAIN x.jv |->
                                     IF x.jv[key] = Absent THEN Absent
                                     ELSE DecodedValue(x.jv[key])]]
      [] OTHER -> x

\* C16: decode_binary_value leaves a str of code points <= 127 unchanged;
\* with a higher code point and all <= 255 it gives the big-endian number of
\* 2 or of 4 characters and the lowercase hexadecimal text for any other
\* length; with a code point above 255 it returns the str unchanged; and
\* clean_lightning_data does this to every str inside dicts and lists, keys
\* and order kept
C16_BinaryValues ==
    pc # "call" => cleaned_data[1] = DecodedValue(raw_data)

\* strs of every case were decoded: a number of 2 bytes, one of 4 bytes, a
\* hexadecimal text, a str beyond latin-1, inside a dict or a list too
C16_Witness ==
    /\ pc = "done"
    /\ \/ raw_data = Str(<<200, 65>>) /\ cleaned_data[1] = Num(512650)
       \/ raw_data = Str(<<1, 65, 200, 1>>) /\ cleaned_data[1] = Num(210882570)
       \/ raw_data = Str(<<200, 1, 65>>)
              /\ cleaned_data[1] = Str(<<99, 56, 48, 49, 52, 49>>)
       \/ raw_data = Str(<<200, 300>>) /\ cleaned_data[1] = raw_data
       \/ raw_data = Obj([data |-> List(<<Str(<<200, 65>>)>>)])
              /\ cleaned_data[1] = Obj([data |-> List(<<Num(512650)>>)])

\* C17: clean_lightning_data is idempotent, and it returns a number
\* unchanged
C17_Idempotent ==
    /\ pc = "again" => cleaned_data[2] = cleaned_data[1]
    /\ (pc # "call" /\ raw_data.jt = "num") => cleaned_data[1] = raw_data

\* a value that the first call changed went through the second call
C17_Witness ==
    /\ pc = "again"
    /\ raw_data.jt = "obj"
    /\ cleaned_data[1] # raw_data
    /\ cleaned_data[2] = cleaned_data[1]

(***************************************************************************)
(* greedy_hotspot_selection (blitzortung_api.py).                          *)
(***************************************************************************)
\* weighted_strikes.sort(reverse=True) compares the tuples (density, strike)
\* themselves: of two tuples of equal density the strikes are compared, with
\* == first and, when they differ, with <, which dicts do not support. The
\* tuples of one density end up next to each other, which a sort can only
\* decide by comparing them, so the sort raises TypeError exactly when two
\* different strikes have the same density
TupleSortRaises(pts) ==
    \E i, j \in DOMAIN pts :
        /\ _calculate_local_density(pts, i) = _calculate_local_density(pts, j)
        /\ pts[i] # pts[j]

\* lines 63-76; the sort that does not raise has only equal tuples to keep in
\* order, and list.sort is stable
ApiGreedy(pts, kk) ==
    IF Len0(pts) <= kk THEN [i \in 1..Len0(pts) |-> i - 1]
    ELSE LET top == SliceTo(SortDescendingByKey(Weighted(pts)), kk)
         IN  [i \in 1..Len(top) |-> top[i][2]]

InitGreedyApi ==
    /\ pc = "call"
    /\ impl = "api"
    /\ strikes \in PointSets
    /\ k \in (-NegK)..MaxK
    /\ hotspots = <<>>
    /\ IdleMst
    /\ IdleBfs
    /\ IdleLog
    /\ IdleDecoders

\* if len(strikes) <= k: return strikes
ApiGreedyAll ==
    /\ pc = "call"
    /\ Len0(strikes) <= k
    /\ hotspots' = ApiGreedy(strikes, k)
    /\ pc' = "done"
    /\ UNCHANGED <<notGreedy, impl, strikes, k>>

ApiGreedySelect ==
    /\ pc = "call"
    /\ Len0(strikes) > k
    /\ ~TupleSortRaises(strikes)
    /\ hotspots' = ApiGreedy(strikes, k)
    /\ pc' = "done"
    /\ UNCHANGED <<notGreedy, impl, strikes, k>>

\* the TypeError of the sort leaves the call
ApiGreedyRaise ==
    /\ pc = "call"
    /\ Len0(strikes) > k
    /\ TupleSortRaises(strikes)
    /\ pc' = "raised"
    /\ UNCHANGED <<notGreedy, impl, strikes, k, hotspots>>

NextGreedyApi ==
    \/ ApiGreedyAll
    \/ ApiGreedySelect
    \/ ApiGreedyRaise

SpecGreedyApi == InitGreedyApi /\ [][NextGreedyApi]_vars

\* C18: the greedy_hotspot_selection of blitzortung_api.py returns, without
\* raising, the sequence of points that the one of app.py returns, points of
\* equal density included
C18_SameAsApp ==
    (impl = "api" /\ pc # "call") =>
        /\ pc = "done"
        /\ hotspots = greedy_hotspot_selection(strikes, k)

(***************************************************************************)
(* The counters of the collector.                                          *)
(***************************************************************************)
\* C19: after any sequence of save_message calls the entries of the log carry
\* the indexes 0, 1, ..., n-1 in file order with n = message_count, and
\* decode_stats has total = decoded_success + decode_failed = message_count
C19_IndexesAndCounters ==
    /\ Len(FileEntries) = message_count
    /\ \A i \in 1..Len(FileEntries) : FileEntries[i].jv["index"] = Whole(i - 1)
    /\ decode_stats.total = decode_stats.decoded_success + decode_stats.decode_failed
    /\ decode_stats.total = message_count

====
